---------------------------- MODULE Spec2Model ----------------------------
(***************************************************************************)
(* Model of md_to_excel/converter.py: the Markdown table tokenizer, the    *)
(* separator validator and the line-by-line table extractor.               *)
(*                                                                         *)
(* A Python str is a sequence of one-character strings.  An Optional list  *)
(* (parse_markdown_table_line's result) is a record [isRow, cells].        *)
(***************************************************************************)
EXTENDS Integers, Sequences, FiniteSets, TLC

(***************************************************************************)
(* Characters                                                              *)
(***************************************************************************)
PIPE == "|"
BSL  == "\\"
DASH == "-"
COLON == ":"
NL   == "\n"

\* what str.strip() removes and what \s matches
Whitespace == {" ", "\t", "\n", "\r"}

(***************************************************************************)
(* str.strip()                                                             *)
(***************************************************************************)
RECURSIVE LStrip(_)
LStrip(s) ==
    IF s = <<>> THEN s
    ELSE IF Head(s) \in Whitespace THEN LStrip(Tail(s)) ELSE s

RECURSIVE RStrip(_)
RStrip(s) ==
    IF s = <<>> THEN s
    ELSE IF s[Len(s)] \in Whitespace THEN RStrip(SubSeq(s, 1, Len(s) - 1)) ELSE s

Strip(s) == RStrip(LStrip(s))

StartsWith(s, c) == Len(s) >= 1 /\ s[1] = c
EndsWith(s, c)   == Len(s) >= 1 /\ s[Len(s)] = c

\* line[1:-1]
Inner(line) == SubSeq(line, 2, Len(line) - 1)

(***************************************************************************)
(* str.replace(<<a, b>>, <<r>>): left to right, non-overlapping            *)
(***************************************************************************)
RECURSIVE ReplacePair(_, _, _, _)
ReplacePair(s, a, b, r) ==
    IF s = <<>> THEN <<>>
    ELSE IF Len(s) >= 2 /\ s[1] = a /\ s[2] = b
         THEN <<r>> \o ReplacePair(SubSeq(s, 3, Len(s)), a, b, r)
         ELSE <<s[1]>> \o ReplacePair(Tail(s), a, b, r)

\* a variant with the two replacements in the other order
unescape_markdown_cell_backslash_first(text) ==
    ReplacePair(ReplacePair(text, BSL, BSL, BSL), BSL, PIPE, PIPE)

\* text.replace('\\|', '|').replace('\\\\', '\\')
unescape_markdown_cell(text) ==
    ReplacePair(ReplacePair(text, BSL, PIPE, PIPE), BSL, BSL, BSL)

(***************************************************************************)
(* re.sub(r'<br\s*/?>', '\n', text, flags=re.IGNORECASE)                   *)
(***************************************************************************)
RECURSIVE SkipSpaces(_, _)
SkipSpaces(s, k) ==
    IF k <= Len(s) /\ s[k] \in Whitespace THEN SkipSpaces(s, k + 1) ELSE k

\* a variant that matches the lower-case letters only
BrLenCaseSensitive(s) ==
    IF Len(s) >= 3 /\ s[1] = "<" /\ s[2] = "b" /\ s[3] = "r"
    THEN LET j  == SkipSpaces(s, 4)
             j2 == IF j <= Len(s) /\ s[j] = "/" THEN j + 1 ELSE j
         IN  IF j2 <= Len(s) /\ s[j2] = ">" THEN j2 ELSE 0
    ELSE 0

\* length of the match of <br\s*/?> at the head of s, 0 when there is none
BrLen(s) ==
    IF Len(s) >= 3 /\ s[1] = "<" /\ s[2] \in {"b", "B"} /\ s[3] \in {"r", "R"}
    THEN LET j  == SkipSpaces(s, 4)
             j2 == IF j <= Len(s) /\ s[j] = "/" THEN j + 1 ELSE j
         IN  IF j2 <= Len(s) /\ s[j2] = ">" THEN j2 ELSE 0
    ELSE 0

RECURSIVE SubBr(_)
SubBr(s) ==
    IF s = <<>> THEN <<>>
    ELSE IF BrLen(s) > 0
         THEN <<NL>> \o SubBr(SubSeq(s, BrLen(s) + 1, Len(s)))
         ELSE <<s[1]>> \o SubBr(Tail(s))

\* the None case is a separate value of the argument
NoneText == <<"None">>

\* a variant without the final strip
preprocess_cell_content_no_strip(text) ==
    IF text = NoneText THEN <<>> ELSE SubBr(text)

preprocess_cell_content(text) ==
    IF text = NoneText THEN <<>> ELSE Strip(SubBr(text))

(***************************************************************************)
(* re.split(r'(?<!\\)\|', inner): cut at every pipe whose previous         *)
(* character in inner is not a backslash.  prev is that character          *)
(* ("" at the start), cur the segment being collected.                     *)
(***************************************************************************)
RECURSIVE SplitFrom(_, _, _)
SplitFrom(s, prev, cur) ==
    IF s = <<>> THEN <<cur>>
    ELSE IF s[1] = PIPE /\ prev # BSL
         THEN <<cur>> \o SplitFrom(Tail(s), s[1], <<>>)
         ELSE SplitFrom(Tail(s), s[1], Append(cur, s[1]))

\* a variant that cuts at every pipe, escaped or not
RECURSIVE SplitEveryPipe(_)
SplitEveryPipe(inner) ==
    IF \A k \in 1..Len(inner) : inner[k] # PIPE THEN <<inner>>
    ELSE LET p == CHOOSE k \in 1..Len(inner) :
                      inner[k] = PIPE /\ \A j \in 1..(k - 1) : inner[j] # PIPE
         IN  <<SubSeq(inner, 1, p - 1)>>
                 \o SplitEveryPipe(SubSeq(inner, p + 1, Len(inner)))

SplitUnescaped(inner) == SplitFrom(inner, "", <<>>)

NotARow == [isRow |-> FALSE, cells |-> <<>>]

parse_markdown_table_line(line0) ==
    LET line == Strip(line0) IN
    IF ~StartsWith(line, PIPE) \/ ~EndsWith(line, PIPE) THEN NotARow
    ELSE LET raw_cells == SplitUnescaped(Inner(line)) IN
         [isRow |-> TRUE,
          cells |-> [k \in 1..Len(raw_cells) |->
                       preprocess_cell_content(
                           unescape_markdown_cell(Strip(raw_cells[k])))]]

(***************************************************************************)
(* re.fullmatch(r'[:\s-]*-+[:\s-]*', col)                                  *)
(***************************************************************************)
SepClass == {COLON, DASH} \cup Whitespace

FullMatchSep(col) ==
    /\ \A k \in 1..Len(col) : col[k] \in SepClass
    /\ \E k \in 1..Len(col) : col[k] = DASH

\* a variant without the dash placeholder for an empty column
is_separator_line_no_placeholder(line0) ==
    LET line == Strip(line0) IN
    IF ~StartsWith(line, PIPE) \/ ~EndsWith(line, PIPE) THEN FALSE
    ELSE LET segs == SplitUnescaped(Inner(line))
             cols == [k \in 1..Len(segs) |-> Strip(segs[k])]
         IN  \A k \in 1..Len(cols) : FullMatchSep(cols[k])

is_separator_line(line0) ==
    LET line == Strip(line0) IN
    IF ~StartsWith(line, PIPE) \/ ~EndsWith(line, PIPE) THEN FALSE
    ELSE LET segs == SplitUnescaped(Inner(line))
             cols == [k \in 1..Len(segs) |-> Strip(segs[k])]
         IN  IF cols = <<>> THEN FALSE
             ELSE \A k \in 1..Len(cols) :
                     FullMatchSep(IF cols[k] = <<>> THEN <<DASH>> ELSE cols[k])

(***************************************************************************)
(* apply_cell_formatting: the cleaned text and the font, "bold" for        *)
(* Font(bold=True), "italic" for Font(italic=True), "none" for None.  The  *)
(* cell argument is not read.                                              *)
(***************************************************************************)
StartsWith2(s, c, d) == Len(s) >= 2 /\ s[1] = c /\ s[2] = d
EndsWith2(s, c, d)   == Len(s) >= 2 /\ s[Len(s) - 1] = c /\ s[Len(s)] = d

STAR == "*"
UNDERSCORE == "_"

\* line 153
IsBold(value) ==
    StartsWith2(value, STAR, STAR) /\ EndsWith2(value, STAR, STAR) /\ Len(value) > 4

\* a variant that accepts one marker at the start and the other at the end
IsItalicAnyMarkers(value) ==
    /\ Len(value) > 2
    /\ value[1] \in {STAR, UNDERSCORE} /\ value[Len(value)] \in {STAR, UNDERSCORE}

\* lines 157-158
IsItalic(value) ==
    /\ \/ StartsWith(value, STAR) /\ EndsWith(value, STAR)
       \/ StartsWith(value, UNDERSCORE) /\ EndsWith(value, UNDERSCORE)
    /\ Len(value) > 2

\* a variant that tests for italic first
apply_cell_formatting_italic_first(value) ==
    IF IsItalic(value)
    THEN [text |-> Strip(SubSeq(value, 2, Len(value) - 1)), font |-> "italic"]
    ELSE IF IsBold(value)
    THEN [text |-> Strip(SubSeq(value, 3, Len(value) - 2)), font |-> "bold"]
    ELSE [text |-> value, font |-> "none"]

\* lines 149-162
apply_cell_formatting(value) ==
    IF IsBold(value)
    THEN [text |-> Strip(SubSeq(value, 3, Len(value) - 2)), font |-> "bold"]
    ELSE IF IsItalic(value)
    THEN [text |-> Strip(SubSeq(value, 2, Len(value) - 1)), font |-> "italic"]
    ELSE [text |-> value, font |-> "none"]

(***************************************************************************)
(* Inputs of the extractor: line sequences over a fixed set of lines.      *)
(***************************************************************************)
MaxLines == 6

RowAB  == <<" ", "|", " ", "a", " ", "|", "b", "|", "\n">>   \* two cells
SepOne == <<"|", ":", "-", "|", "\n">>                       \* one-column separator
RowEsc == <<"|", "a", "\\", "|", "b", "|">>                  \* one cell, escaped pipe
Blank  == <<"\n">>
Prose  == <<"a", "|", "\n">>

LineSet == {RowAB, SepOne, RowEsc, Blank, Prose}

Inputs == UNION {[1..n -> LineSet] : n \in 0..MaxLines}

(***************************************************************************)
(* State.  pending: the line sequences still to be parsed, results: what   *)
(* each finished call of parse_markdown_table returned and printed.  The   *)
(* other variables are the locals of the running call; i is the 0-based    *)
(* index of the line the loop is at.                                       *)
(***************************************************************************)
VARIABLES pending, results, pc, lines, i, headers, data_rows,
          header_found, separator_found, table_found, out,
          fn, arg, ret    \* a direct call of one of the line functions

locals == <<lines, i, headers, data_rows, header_found, separator_found,
            table_found, out>>
scan == <<pending, results, pc, locals>>
direct == <<fn, arg, ret>>
vars == <<scan, direct>>

Msg(kind, line, actual, expected) ==
    [kind |-> kind, line |-> line, actual |-> actual, expected |-> expected]

NoCall == fn = "none" /\ arg = <<>> /\ ret = <<>>

InitLocals ==
    /\ lines = <<>> /\ i = 0 /\ headers = <<>> /\ data_rows = <<>>
    /\ header_found = FALSE /\ separator_found = FALSE /\ table_found = FALSE
    /\ out = <<>>

Init ==
    /\ pending \in {<<a>> : a \in Inputs}
    /\ results = <<>>
    /\ pc = "idle"
    /\ InitLocals
    /\ NoCall

\* return headers, data_rows, <success>
Return(success, printed) ==
    /\ results' = Append(results,
                         [input |-> lines, headers |-> headers,
                          rows |-> data_rows, success |-> success,
                          out |-> printed, at |-> i])
    /\ pc' = "idle"

\* a variant whose row list outlives the call
CallKeepsRows ==
    /\ pc = "idle" /\ pending # <<>>
    /\ lines' = Head(pending)
    /\ pending' = Tail(pending)
    /\ i' = 0 /\ headers' = <<>>
    /\ header_found' = FALSE /\ separator_found' = FALSE /\ table_found' = FALSE
    /\ out' = <<Msg("processing", 0, 0, 0)>>
    /\ pc' = "loop"
    /\ UNCHANGED <<direct, results, data_rows>>

\* lines 182-188: a call starts with fresh locals
Call ==
    /\ pc = "idle" /\ pending # <<>>
    /\ lines' = Head(pending)
    /\ pending' = Tail(pending)
    /\ i' = 0 /\ headers' = <<>> /\ data_rows' = <<>>
    /\ header_found' = FALSE /\ separator_found' = FALSE /\ table_found' = FALSE
    /\ out' = <<Msg("processing", 0, 0, 0)>>
    /\ pc' = "loop"
    /\ UNCHANGED <<direct, results>>

InLoop == pc = "loop" /\ i < Len(lines)
Line == lines[i + 1]

\* a variant that goes on testing after the separator has been found
SeparatorCheckAfterHeader == header_found /\ is_separator_line(Line)

\* lines 192-196: the condition
SeparatorCheck == header_found /\ ~separator_found /\ is_separator_line(Line)

\* a variant without the continue: the separator line goes on to line 199
FoundSeparatorFallsThrough ==
    /\ InLoop /\ SeparatorCheck
    /\ separator_found' = TRUE
    /\ data_rows' = Append(data_rows, parse_markdown_table_line(Line).cells)
    /\ out' = Append(out, Msg("separator", i + 1, 0, 0))
    /\ i' = i + 1
    /\ UNCHANGED <<direct, pending, results, pc, lines, headers,
                   header_found, table_found>>

\* lines 192-196
FoundSeparator ==
    /\ InLoop /\ SeparatorCheck
    /\ separator_found' = TRUE
    /\ out' = Append(out, Msg("separator", i + 1, 0, 0))
    /\ i' = i + 1
    /\ UNCHANGED <<direct, pending, results, pc, lines, headers, data_rows,
                   header_found, table_found>>

\* line 199
parsed_cols == parse_markdown_table_line(Line)

\* lines 202-206
FoundHeader ==
    /\ InLoop /\ ~SeparatorCheck
    /\ parsed_cols.isRow /\ ~header_found
    /\ headers' = parsed_cols.cells
    /\ header_found' = TRUE
    /\ table_found' = TRUE
    /\ out' = Append(out, Msg("header", i + 1, 0, 0))
    /\ i' = i + 1
    /\ UNCHANGED <<direct, pending, results, pc, lines, data_rows, separator_found>>

\* a variant that prints the two counts in the other order
WidthWarningSwapped(cols) ==
    IF Len(cols) # Len(headers)
    THEN <<Msg("width_warning", i + 1, Len(headers), Len(cols))>>
    ELSE <<>>

\* lines 207-211
WidthWarning(cols) ==
    IF Len(cols) # Len(headers)
    THEN <<Msg("width_warning", i + 1, Len(cols), Len(headers))>>
    ELSE <<>>

\* a variant that keeps only the rows as wide as the header
AppendedRowsDropMismatch(cols) ==
    IF Len(cols) # Len(headers) THEN data_rows ELSE Append(data_rows, cols)

\* line 211: data_rows.append(parsed_cols)
AppendedRows(cols) == Append(data_rows, cols)

AppendDataRow ==
    /\ InLoop /\ ~SeparatorCheck
    /\ parsed_cols.isRow /\ header_found /\ separator_found
    /\ out' = out \o WidthWarning(parsed_cols.cells)
    /\ data_rows' = AppendedRows(parsed_cols.cells)
    /\ i' = i + 1
    /\ UNCHANGED <<direct, pending, results, pc, lines, headers, header_found,
                   separator_found, table_found>>

\* a variant that passes over the row as over any other line
RowBeforeSeparatorIgnored ==
    /\ InLoop /\ ~SeparatorCheck
    /\ parsed_cols.isRow /\ header_found /\ ~separator_found
    /\ i' = i + 1
    /\ UNCHANGED <<direct, pending, results, pc, lines, headers, data_rows,
                   header_found, separator_found, table_found, out>>

\* a variant that takes the row as the new header
RowBeforeSeparatorReplacesHeader ==
    /\ InLoop /\ ~SeparatorCheck
    /\ parsed_cols.isRow /\ header_found /\ ~separator_found
    /\ headers' = parsed_cols.cells
    /\ i' = i + 1
    /\ UNCHANGED <<direct, pending, results, pc, lines, data_rows,
                   header_found, separator_found, table_found, out>>

\* a variant that keeps the row as a data row
RowBeforeSeparatorKeptAsData ==
    /\ InLoop /\ ~SeparatorCheck
    /\ parsed_cols.isRow /\ header_found /\ ~separator_found
    /\ data_rows' = Append(data_rows, parsed_cols.cells)
    /\ i' = i + 1
    /\ UNCHANGED <<direct, pending, results, pc, lines, headers,
                   header_found, separator_found, table_found, out>>

\* a variant that reports the failure as a missing header
RowBeforeSeparatorAsNoHeader ==
    /\ InLoop /\ ~SeparatorCheck
    /\ parsed_cols.isRow /\ header_found /\ ~separator_found
    /\ Return(FALSE, Append(out, Msg("error_no_header", 0, 0, 0)))
    /\ UNCHANGED <<direct, pending, locals>>

\* lines 212-214
RowBeforeSeparator ==
    /\ InLoop /\ ~SeparatorCheck
    /\ parsed_cols.isRow /\ header_found /\ ~separator_found
    /\ Return(FALSE, Append(out, Msg("error_row_before_separator", i + 1, 0, 0)))
    /\ UNCHANGED <<direct, pending, locals>>

\* a variant that ends the table at any non-row line after the header
TableBlockEndedAfterHeader == table_found

\* line 216: the condition of the elif
TableBlockEnded == table_found /\ separator_found

\* a variant without the break
TableEndedKeepsScanning ==
    /\ InLoop /\ ~SeparatorCheck
    /\ ~parsed_cols.isRow /\ TableBlockEnded
    /\ out' = Append(out, Msg("table_ended", i, 0, 0))
    /\ i' = i + 1
    /\ UNCHANGED <<direct, pending, results, pc, lines, headers, data_rows,
                   header_found, separator_found, table_found>>

\* lines 216-218
TableEnded ==
    /\ InLoop /\ ~SeparatorCheck
    /\ ~parsed_cols.isRow /\ TableBlockEnded
    /\ out' = Append(out, Msg("table_ended", i, 0, 0))
    /\ pc' = "validate"
    /\ UNCHANGED <<direct, pending, results, lines, i, headers, data_rows,
                   header_found, separator_found, table_found>>

\* neither branch of lines 201-218 applies: next line
SkipLine ==
    /\ InLoop /\ ~SeparatorCheck
    /\ ~parsed_cols.isRow /\ ~TableBlockEnded
    /\ i' = i + 1
    /\ UNCHANGED <<direct, pending, results, pc, lines, headers, data_rows,
                   header_found, separator_found, table_found, out>>

\* line 190: the loop is exhausted
EndOfInput ==
    /\ pc = "loop" /\ i = Len(lines)
    /\ pc' = "validate"
    /\ UNCHANGED <<direct, pending, results, locals>>

\* lines 221-223
NoHeaderFound ==
    /\ pc = "validate" /\ ~header_found
    /\ Return(FALSE, Append(out, Msg("error_no_header", 0, 0, 0)))
    /\ UNCHANGED <<direct, pending, locals>>

\* lines 225-227
NoSeparatorFound ==
    /\ pc = "validate" /\ header_found /\ ~separator_found
    /\ Return(FALSE, Append(out, Msg("error_no_separator", 0, 0, 0)))
    /\ UNCHANGED <<direct, pending, locals>>

\* lines 229-230
NoRowsWarning ==
    IF data_rows = <<>> THEN <<Msg("no_data_rows", 0, 0, 0)>> ELSE <<>>

\* a variant that fails on a table without data rows
ReturnTableNeedsRows ==
    /\ pc = "validate" /\ header_found /\ separator_found
    /\ Return(data_rows # <<>>, out \o NoRowsWarning)
    /\ UNCHANGED <<direct, pending, locals>>

\* lines 229-232
ReturnTable ==
    /\ pc = "validate" /\ header_found /\ separator_found
    /\ Return(TRUE, out \o NoRowsWarning)
    /\ UNCHANGED <<direct, pending, locals>>

Next ==
    \/ Call
    \/ FoundSeparator
    \/ FoundHeader
    \/ AppendDataRow
    \/ RowBeforeSeparator
    \/ TableEnded
    \/ SkipLine
    \/ EndOfInput
    \/ NoHeaderFound
    \/ NoSeparatorFound
    \/ ReturnTable

Spec == Init /\ [][Next]_vars

(***************************************************************************)
(* Two calls in a row, the second on a variant of the first input: the     *)
(* input cut after some line, with one line removed, or without the        *)
(* non-row lines that come before its second pipe-delimited row.           *)
(***************************************************************************)
Remove(s, p) == SubSeq(s, 1, p - 1) \o SubSeq(s, p + 1, Len(s))

\* s without the non-row lines that come before its n-th pipe-delimited row
RECURSIVE DropNonRows(_, _)
DropNonRows(s, n) ==
    IF s = <<>> \/ n = 0 THEN s
    ELSE IF parse_markdown_table_line(Head(s)).isRow
         THEN <<Head(s)>> \o DropNonRows(Tail(s), n - 1)
         ELSE DropNonRows(Tail(s), n)

MaxPairLines == 5

PairLineSet == {RowAB, SepOne, RowEsc, Blank}

PairInputs == UNION {[1..n -> PairLineSet] : n \in 0..MaxPairLines}

Variants(a) ==
    {a, DropNonRows(a, 2)}
        \cup {SubSeq(a, 1, k) : k \in 0..Len(a)}
        \cup {Remove(a, p) : p \in 1..Len(a)}

InitPair ==
    /\ pending \in UNION {{<<a, b>> : b \in Variants(a)} : a \in PairInputs}
    /\ results = <<>>
    /\ pc = "idle"
    /\ InitLocals
    /\ NoCall

SpecPair == InitPair /\ [][Next]_vars

(***************************************************************************)
(* Three calls in a row: an input, a variant of it, the input again.       *)
(***************************************************************************)
MaxAgainLines == 4

AgainInputs == UNION {[1..n -> PairLineSet] : n \in 0..MaxAgainLines}

InitAgain ==
    /\ pending \in UNION {{<<a, b, a>> : b \in Variants(a)} : a \in AgainInputs}
    /\ results = <<>>
    /\ pc = "idle"
    /\ InitLocals
    /\ NoCall

SpecAgain == InitAgain /\ [][Next]_vars

(***************************************************************************)
(* One direct call of a line function on a string over Alphabet.           *)
(***************************************************************************)
MaxLen == 5

Alphabet == {PIPE, BSL, DASH, COLON, " ", "a"}

Strings == UNION {[1..n -> Alphabet] : n \in 0..MaxLen}

\* the lines the documentation gives as examples
ExampleLines ==
    { <<"|", " ", "a", " ", "|", " ", "b", " ", "|">>,
      <<"|", " ", " ", "|", "-", "-", "-", "|">>,
      <<"|", "-", "-", "-", "|", ":", "-", "-", "-", ":", "|", "-", "-", "-", ":", "|">>,
      <<"|", " ", "a", " ", "|", " ", "b", "\\", "|", "c", " ", "|", " ", "d", " ", "|">>,
      <<"|", "|", "\n">> }

InitLine ==
    /\ arg \in Strings \cup ExampleLines
    /\ fn = "none"
    /\ ret = <<>>
    /\ pending = <<>> /\ results = <<>> /\ pc = "idle"
    /\ InitLocals

CallTokenizer ==
    /\ fn = "none"
    /\ fn' = "parse_markdown_table_line"
    /\ ret' = parse_markdown_table_line(arg)
    /\ UNCHANGED <<arg, scan>>

CallValidator ==
    /\ fn = "none"
    /\ fn' = "is_separator_line"
    /\ ret' = is_separator_line(arg)
    /\ UNCHANGED <<arg, scan>>

NextLine ==
    \/ CallTokenizer
    \/ CallValidator

SpecLine == InitLine /\ [][NextLine]_vars

NoScan == pending = <<>> /\ results = <<>> /\ pc = "idle" /\ InitLocals

(***************************************************************************)
(* One direct call of the cell content functions on a raw cell text, None  *)
(* included.                                                               *)
(***************************************************************************)
MaxTextLen == 5

TextAlphabet == {"<", "b", "R", "/", ">", " ", "a"}

TextStrings == UNION {[1..n -> TextAlphabet] : n \in 0..MaxTextLen}

ExampleTexts ==
    { <<"<", "b", "r", " ", "/", ">">>,
      <<"<", "B", "R", ">">>,
      <<"<", "b", "r", ">">>,
      <<"a", "<", "b", "r", ">", "a">>,
      <<" ", "a", "<", "B", "r", "\t", "/", ">", "a", "\n">>,
      <<"a", "\\", "|", "a">> }

InitText ==
    /\ arg \in TextStrings \cup ExampleTexts \cup {NoneText}
    /\ fn = "none"
    /\ ret = <<>>
    /\ NoScan

CallPreprocess ==
    /\ fn = "none"
    /\ fn' = "preprocess_cell_content"
    /\ ret' = preprocess_cell_content(arg)
    /\ UNCHANGED <<arg, scan>>

\* unescape_markdown_cell applied to the result of preprocess_cell_content
CallPreprocessThenUnescape ==
    /\ fn = "none"
    /\ fn' = "unescape_after_preprocess"
    /\ ret' = unescape_markdown_cell(preprocess_cell_content(arg))
    /\ UNCHANGED <<arg, scan>>

NextText ==
    \/ CallPreprocess
    \/ CallPreprocessThenUnescape

SpecText == InitText /\ [][NextText]_vars

(***************************************************************************)
(* One direct call of apply_cell_formatting on a cell text.                *)
(***************************************************************************)
MaxStyleLen == 6

StyleAlphabet == {STAR, UNDERSCORE, "a", " "}

StyleStrings == UNION {[1..n -> StyleAlphabet] : n \in 0..MaxStyleLen}

ExampleStyles ==
    { <<"*", "*", "b", "o", "l", "d", "*", "*">>,
      <<"*", "i", "t", "*">>,
      <<"_", "i", "t", "_">>,
      <<"p", "l", "a", "i", "n">>,
      <<"*", "*", "*", "x", "*", "*", "*">>,
      <<"*", "*", "x", "*">>,
      <<"a", "*", "b", "*", "c">> }

InitStyle ==
    /\ arg \in StyleStrings \cup ExampleStyles
    /\ fn = "none"
    /\ ret = <<>>
    /\ NoScan

CallFormatting ==
    /\ fn = "none"
    /\ fn' = "apply_cell_formatting"
    /\ ret' = apply_cell_formatting(arg)
    /\ UNCHANGED <<arg, scan>>

NextStyle == CallFormatting

SpecStyle == InitStyle /\ [][NextStyle]_vars

(***************************************************************************)
(* One direct call of unescape_markdown_cell on a string of backslashes,   *)
(* pipes and ordinary characters.                                          *)
(***************************************************************************)
MaxEscLen == 7

EscAlphabet == {BSL, PIPE, "a"}

EscStrings == UNION {[1..n -> EscAlphabet] : n \in 0..MaxEscLen}

InitEsc ==
    /\ arg \in EscStrings
    /\ fn = "none"
    /\ ret = <<>>
    /\ NoScan

CallUnescape ==
    /\ fn = "none"
    /\ fn' = "unescape_markdown_cell"
    /\ ret' = unescape_markdown_cell(arg)
    /\ UNCHANGED <<arg, scan>>

NextEsc == CallUnescape

SpecEsc == InitEsc /\ [][NextEsc]_vars

(***************************************************************************)
(* Vocabulary of the properties, stated on the input itself.               *)
(***************************************************************************)
MinOf(S) == CHOOSE x \in S : \A y \in S : x <= y
MaxOf(S) == CHOOSE x \in S : \A y \in S : x >= y

\* the positions of a line that hold no whitespace
NonWs(l) == {k \in 1..Len(l) : l[k] \notin Whitespace}

\* the line without its leading and trailing whitespace
Trimmed(l) ==
    IF NonWs(l) = {} THEN <<>> ELSE SubSeq(l, MinOf(NonWs(l)), MaxOf(NonWs(l)))

\* a pipe-delimited row: the trimmed line starts and ends with a pipe
IsPipeRow(l) ==
    /\ NonWs(l) # {}
    /\ l[MinOf(NonWs(l))] = PIPE
    /\ l[MaxOf(NonWs(l))] = PIPE

RowIdx(ls) == {k \in 1..Len(ls) : IsPipeRow(ls[k])}

HasHeader(ls) == RowIdx(ls) # {}
HeaderAt(ls) == MinOf(RowIdx(ls))

\* the first pipe-delimited row after the header
HasSecondRow(ls) == Cardinality(RowIdx(ls)) >= 2
SecondRowAt(ls) == MinOf(RowIdx(ls) \ {HeaderAt(ls)})

\* the first pipe-delimited row after the header is a separator
HasSeparator(ls) == HasSecondRow(ls) /\ is_separator_line(ls[SecondRowAt(ls)])

\* the length of the run of pipe-delimited rows directly after line s
RunLen(ls, s) ==
    MaxOf({m \in 0..(Len(ls) - s) : \A k \in 1..m : IsPipeRow(ls[s + k])})

Tok(l) == parse_markdown_table_line(l).cells

Finished == {n \in 1..Len(results) : TRUE}

Range(f) == {f[k] : k \in DOMAIN f}

(***************************************************************************)
(* C1: when the first pipe-delimited row is followed, with only non-row    *)
(* lines in between, by a line the separator validator accepts, the call   *)
(* succeeds, headers is the tokenization of that first row and rows holds, *)
(* in input order, the tokenizations of the maximal run of pipe-delimited  *)
(* rows directly after the separator, each with the cells it has.          *)
(***************************************************************************)
C1_FirstTableExtracted ==
    \A n \in Finished :
        LET r == results[n]
            ls == r.input
        IN  HasSeparator(ls) =>
              LET h == HeaderAt(ls)
                  s == SecondRowAt(ls)
                  m == RunLen(ls, s)
              IN  /\ r.success
                  /\ r.headers = Tok(ls[h])
                  /\ r.rows = [k \in 1..m |-> Tok(ls[s + k])]

\* a table whose rows have another width than the header, ended by a
\* non-row line that more rows follow
C1_Witness ==
    \E n \in Finished :
        LET r == results[n]
            ls == r.input
        IN  /\ HasSeparator(ls)
            /\ RunLen(ls, SecondRowAt(ls)) >= 1
            /\ \E k \in 1..Len(r.rows) : Len(r.rows[k]) # Len(r.headers)
            /\ \E k \in RowIdx(ls) : k > SecondRowAt(ls) + RunLen(ls, SecondRowAt(ls))
            /\ HeaderAt(ls) + 1 < SecondRowAt(ls)

(***************************************************************************)
(* C2: when the first pipe-delimited row after the header is rejected by   *)
(* the separator validator, the call fails at that line: the scan stops    *)
(* there, the last message is the row-before-separator error with that     *)
(* line's 1-based number, whatever follows the line.                       *)
(***************************************************************************)
C2_RowBeforeSeparatorFails ==
    \A n \in Finished :
        LET r == results[n]
            ls == r.input
        IN  (HasSecondRow(ls) /\ ~is_separator_line(ls[SecondRowAt(ls)])) =>
              /\ ~r.success
              /\ r.at + 1 = SecondRowAt(ls)
              /\ r.out[Len(r.out)] =
                     Msg("error_row_before_separator", SecondRowAt(ls), 0, 0)
              /\ \A k \in 1..Len(r.out) :
                     r.out[k].kind \notin {"separator", "table_ended",
                                            "error_no_header", "error_no_separator",
                                            "no_data_rows", "width_warning"}

\* the rejected row is followed by a valid separator and a data row
C2_Witness ==
    \E n \in Finished :
        LET r == results[n]
            ls == r.input
        IN  /\ HasSecondRow(ls) /\ ~is_separator_line(ls[SecondRowAt(ls)])
            /\ ~r.success
            /\ \E k \in 1..Len(ls) :
                  /\ k > SecondRowAt(ls) /\ k < Len(ls)
                  /\ is_separator_line(ls[k]) /\ IsPipeRow(ls[k + 1])

(***************************************************************************)
(* C3: once the separator has been recognized, the first line that is not  *)
(* a pipe-delimited row ends the scan, and two inputs that agree up to and *)
(* including that line give the same headers, rows, messages and success   *)
(* flag.                                                                   *)
(***************************************************************************)
\* the separator is followed, after its run of rows, by a non-row line
HasDone(ls) ==
    HasSeparator(ls) /\ SecondRowAt(ls) + RunLen(ls, SecondRowAt(ls)) < Len(ls)
DoneAt(ls) == SecondRowAt(ls) + RunLen(ls, SecondRowAt(ls)) + 1

AgreeUpTo(a, b, d) == Len(b) >= d /\ SubSeq(b, 1, d) = SubSeq(a, 1, d)

C3_NothingAfterTableEndMatters ==
    /\ \A n \in Finished :
          LET r == results[n] IN
          HasDone(r.input) =>
              /\ r.at + 1 = DoneAt(r.input)
              /\ Msg("table_ended", DoneAt(r.input) - 1, 0, 0) \in Range(r.out)
    /\ Len(results) = 2 =>
          LET ra == results[1]
              rb == results[2]
          IN  (HasDone(ra.input) /\ AgreeUpTo(ra.input, rb.input, DoneAt(ra.input))) =>
                 /\ ra.headers = rb.headers
                 /\ ra.rows = rb.rows
                 /\ ra.out = rb.out
                 /\ ra.success = rb.success

\* the first input holds a data row, the end of its table and then a second
\* table that the second input lacks
C3_Witness ==
    /\ Len(results) = 2
    /\ HasDone(results[1].input)
    /\ AgreeUpTo(results[1].input, results[2].input, DoneAt(results[1].input))
    /\ results[1].input # results[2].input
    /\ results[1].rows # <<>>
    /\ \E k \in RowIdx(results[1].input) : k > DoneAt(results[1].input)

(***************************************************************************)
(* C4: a failed call prints exactly one error, as its last message: the    *)
(* missing-header error exactly when no line is a pipe-delimited row, the  *)
(* missing-separator error exactly when exactly one line is, the           *)
(* row-before-separator error exactly when the first pipe-delimited row    *)
(* after the header is not a separator.                                    *)
(***************************************************************************)
ErrorKinds == {"error_no_header", "error_no_separator", "error_row_before_separator"}

ErrorsOf(r) == {k \in 1..Len(r.out) : r.out[k].kind \in ErrorKinds}

C4_OneFailureReason ==
    \A n \in Finished :
        LET r == results[n]
            ls == r.input
            reason == r.out[Len(r.out)].kind
        IN  /\ r.success => ErrorsOf(r) = {}
            /\ ~r.success =>
                 /\ ErrorsOf(r) = {Len(r.out)}
                 /\ reason = "error_no_header" <=> ~HasHeader(ls)
                 /\ reason = "error_no_separator" <=> Cardinality(RowIdx(ls)) = 1
                 /\ reason = "error_row_before_separator" <=>
                        (HasSecondRow(ls) /\ ~is_separator_line(ls[SecondRowAt(ls)]))

C4_Witness ==
    \E n \in Finished :
        /\ ~results[n].success
        /\ HasSecondRow(results[n].input)
        /\ results[n].out[Len(results[n].out)].kind = "error_row_before_separator"

(***************************************************************************)
(* C5: a header and a recognized separator with no data row after it is a  *)
(* success with an empty row list, and the no-data-rows warning is printed *)
(* exactly when the call succeeds with an empty row list.                  *)
(***************************************************************************)
C5_EmptyTableSucceeds ==
    \A n \in Finished :
        LET r == results[n]
            ls == r.input
        IN  /\ (HasSeparator(ls) /\ RunLen(ls, SecondRowAt(ls)) = 0) =>
                  (r.success /\ r.rows = <<>>)
            /\ (\E k \in 1..Len(r.out) : r.out[k].kind = "no_data_rows")
                  <=> (r.success /\ r.rows = <<>>)

\* the separator is followed by a non-row line and later rows
C5_Witness ==
    \E n \in Finished :
        LET r == results[n]
            ls == r.input
        IN  /\ HasSeparator(ls) /\ RunLen(ls, SecondRowAt(ls)) = 0
            /\ r.success
            /\ Msg("no_data_rows", 0, 0, 0) \in Range(r.out)
            /\ \E k \in RowIdx(ls) : k > SecondRowAt(ls)

(***************************************************************************)
(* C6: each data row gets a width warning exactly when its cell count is   *)
(* not the header's; the warning carries the expected and the actual count *)
(* and never stops the scan or fails the call.                             *)
(***************************************************************************)
WarningsOf(r) == {k \in 1..Len(r.out) : r.out[k].kind = "width_warning"}

Mismatched(r) == {k \in 1..Len(r.rows) : Len(r.rows[k]) # Len(r.headers)}

\* as stated: the warning names the row by its index among the data rows
C6_WarningNamesRowIndex ==
    \A n \in Finished :
        LET r == results[n] IN
        HasSeparator(r.input) =>
            \A k \in 1..Len(r.rows) :
                k \in Mismatched(r) <=>
                    Msg("width_warning", k, Len(r.rows[k]), Len(r.headers))
                        \in Range(r.out)

\* as the code has it: the warning names the row by the 1-based number of
\* its line in the input
C6_WarningNamesLineNumber ==
    \A n \in Finished :
        LET r == results[n]
            ls == r.input
        IN  HasSeparator(ls) =>
              LET s == SecondRowAt(ls) IN
              /\ r.success
              /\ Len(r.rows) = RunLen(ls, s)
              /\ {r.out[k] : k \in WarningsOf(r)} =
                    {Msg("width_warning", s + k, Len(r.rows[k]), Len(r.headers)) :
                        k \in Mismatched(r)}
              /\ Cardinality(WarningsOf(r)) = Cardinality(Mismatched(r))

\* a row of another width than the header, and a row after it
C6_Witness ==
    \E n \in Finished :
        LET r == results[n] IN
        /\ HasSeparator(r.input)
        /\ \E k \in Mismatched(r) : k < Len(r.rows) /\ k + 1 \notin Mismatched(r)
        /\ WarningsOf(r) # {}

(***************************************************************************)
(* C7: while the header is recorded and no separator is, a line that the   *)
(* separator validator accepts is consumed as the separator: the step sets *)
(* separator_found and moves to the next line, appends no data row, keeps  *)
(* the header and returns nothing.                                         *)
(***************************************************************************)
C7_SeparatorLineIsConsumed ==
    [][(InLoop /\ header_found /\ ~separator_found /\ is_separator_line(Line)) =>
          /\ separator_found'
          /\ i' = i + 1
          /\ pc' = "loop"
          /\ data_rows' = data_rows
          /\ headers' = headers
          /\ results' = results
          /\ out' = Append(out, Msg("separator", i + 1, 0, 0))]_vars

\* the separator has just been consumed, some lines after the header
C7_Witness ==
    /\ pc = "loop" /\ separator_found /\ data_rows = <<>>
    /\ i >= 3
    /\ is_separator_line(lines[i])
    /\ out[Len(out)] = Msg("separator", i, 0, 0)

(***************************************************************************)
(* C8: a line that is not a pipe-delimited row and stands before the       *)
(* second pipe-delimited row of the input (before the header, or after it  *)
(* while the separator is still expected) is ignored: removing one such    *)
(* line, or all of them, leaves headers, rows and the success flag as they *)
(* are.                                                                    *)
(***************************************************************************)
Ignorable(a, p) ==
    /\ ~IsPipeRow(a[p])
    /\ HasSecondRow(a) => p < SecondRowAt(a)

Kept(a) == {p \in 1..Len(a) : ~Ignorable(a, p)}

\* b is a without its ignorable lines
IsWithoutIgnorable(a, b) ==
    /\ Len(b) = Cardinality(Kept(a))
    /\ \A p \in Kept(a) : b[Cardinality({q \in Kept(a) : q <= p})] = a[p]

SameTable(ra, rb) ==
    /\ ra.headers = rb.headers
    /\ ra.rows = rb.rows
    /\ ra.success = rb.success

C8_NonRowLinesBeforeSeparatorIgnored ==
    Len(results) = 2 =>
        LET ra == results[1]
            rb == results[2]
            a == ra.input
            b == rb.input
        IN  /\ IsWithoutIgnorable(a, b) => SameTable(ra, rb)
            /\ \A p \in 1..Len(a) :
                  (Ignorable(a, p) /\ b = Remove(a, p)) => SameTable(ra, rb)

\* non-row lines before the header and between header and separator, removed
\* from a table that has a data row
C8_Witness ==
    /\ Len(results) = 2
    /\ IsWithoutIgnorable(results[1].input, results[2].input)
    /\ HasSeparator(results[1].input)
    /\ HeaderAt(results[1].input) > 1
    /\ SecondRowAt(results[1].input) > HeaderAt(results[1].input) + 1
    /\ results[1].rows # <<>>
    /\ results[2].success

(***************************************************************************)
(* The segments of a pipe-delimited row, stated on positions: the text     *)
(* between the first and the last character of the trimmed line, cut at    *)
(* the pipes that no backslash immediately precedes.                       *)
(***************************************************************************)
Between(l) == SubSeq(Trimmed(l), 2, Len(Trimmed(l)) - 1)

UnescapedPipes(x) ==
    {k \in 1..Len(x) : x[k] = PIPE /\ (k = 1 \/ x[k - 1] # BSL)}

SegCount(x) == Cardinality(UnescapedPipes(x)) + 1

\* the position of the m-th cut; 0 and Len(x) + 1 bound the text
Cut(x, m) ==
    IF m = 0 THEN 0
    ELSE IF m = SegCount(x) THEN Len(x) + 1
    ELSE CHOOSE k \in UnescapedPipes(x) :
             Cardinality({j \in UnescapedPipes(x) : j <= k}) = m

Segment(x, m) == SubSeq(x, Cut(x, m - 1) + 1, Cut(x, m) - 1)

(***************************************************************************)
(* C9: parse_markdown_table_line answers "not a row" exactly when the      *)
(* trimmed line does not both start and end with a pipe; otherwise it      *)
(* returns one cell per segment, so 1 + (number of unescaped pipes) cells, *)
(* never none, an empty cell between two adjacent unescaped pipes, and one *)
(* empty cell for the line "||".                                           *)
(***************************************************************************)
C9_TokenizerSplitsOnUnescapedPipes ==
    fn = "parse_markdown_table_line" =>
        /\ ret.isRow <=> IsPipeRow(arg)
        /\ ~ret.isRow => ret = NotARow
        /\ ret.isRow =>
             LET x == Between(arg) IN
             /\ Len(ret.cells) = 1 + Cardinality(UnescapedPipes(x))
             /\ Len(ret.cells) >= 1
             /\ \A m \in 1..SegCount(x) :
                   ret.cells[m] = preprocess_cell_content(
                                      unescape_markdown_cell(Trimmed(Segment(x, m))))
             /\ \A k \in UnescapedPipes(x) :
                   (k + 1) \in UnescapedPipes(x) =>
                       ret.cells[Cardinality({j \in UnescapedPipes(x) : j <= k}) + 1] = <<>>
             /\ Trimmed(arg) = <<PIPE, PIPE>> => ret.cells = << <<>> >>

\* a row with an escaped pipe inside a cell
C9_Witness ==
    /\ fn = "parse_markdown_table_line"
    /\ \E k \in 2..Len(arg) : arg[k] = PIPE /\ arg[k - 1] = BSL
    /\ ret = [isRow |-> TRUE, cells |-> << <<"a">>, <<"b", "|", "c">>, <<"d">> >>]

(***************************************************************************)
(* C10: is_separator_line accepts exactly the pipe-delimited rows whose    *)
(* every segment, trimmed, is empty or made of colons, whitespace and      *)
(* dashes with at least one dash.                                          *)
(***************************************************************************)
SeparatorSegment(g) ==
    \/ g = <<>>
    \/ /\ \A k \in 1..Len(g) : g[k] \in {COLON, DASH} \cup Whitespace
       /\ \E k \in 1..Len(g) : g[k] = DASH

C10_SeparatorAccepted ==
    fn = "is_separator_line" =>
        /\ ret <=> /\ IsPipeRow(arg)
                   /\ \A m \in 1..SegCount(Between(arg)) :
                         SeparatorSegment(Trimmed(Segment(Between(arg), m)))
        /\ arg = <<"|", " ", "a", " ", "|", " ", "b", " ", "|">> => ~ret
        /\ arg = <<"|", " ", " ", "|", "-", "-", "-", "|">> => ret

\* a separator with a blank segment is accepted
C10_Witness ==
    /\ fn = "is_separator_line"
    /\ arg = <<"|", " ", " ", "|", "-", "-", "-", "|">>
    /\ ret = TRUE

(***************************************************************************)
(* HTML line-break tags, stated on positions: "<", b or B, r or R, any     *)
(* whitespace, an optional "/", ">".  k is the position of "<", e of ">".  *)
(***************************************************************************)
AllWhitespace(s, from, to) == \A q \in from..to : s[q] \in Whitespace

IsBrTag(s, k, e) ==
    /\ k >= 1 /\ k + 3 <= e /\ e <= Len(s)
    /\ s[k] = "<" /\ s[k + 1] \in {"b", "B"} /\ s[k + 2] \in {"r", "R"}
    /\ s[e] = ">"
    /\ \/ AllWhitespace(s, k + 3, e - 1)
       \/ e - 1 >= k + 3 /\ s[e - 1] = "/" /\ AllWhitespace(s, k + 3, e - 2)

BrStarts(s) == {k \in 1..Len(s) : \E e \in 1..Len(s) : IsBrTag(s, k, e)}
BrEnd(s, k) == CHOOSE e \in 1..Len(s) : IsBrTag(s, k, e)

\* the positions of s that are not inside a tag after its "<"
OutsideBr(s) ==
    {q \in 1..Len(s) : \A k \in BrStarts(s) : ~(k < q /\ q <= BrEnd(s, k))}

\* s with every tag replaced by one newline
BrReplaced(s) ==
    [j \in 1..Cardinality(OutsideBr(s)) |->
        LET q == CHOOSE q \in OutsideBr(s) :
                     Cardinality({x \in OutsideBr(s) : x <= q}) = j
        IN  IF q \in BrStarts(s) THEN NL ELSE s[q]]

NoPipeNoBackslash(s) == \A k \in 1..Len(s) : s[k] \notin {PIPE, BSL}

(***************************************************************************)
(* C11: for a string s with no pipe and no backslash,                      *)
(* unescape_markdown_cell(preprocess_cell_content(s)) is s trimmed.        *)
(***************************************************************************)
\* as stated, for every such string
C11_RoundTripIsTrim ==
    (fn = "unescape_after_preprocess" /\ arg # NoneText /\ NoPipeNoBackslash(arg)) =>
        ret = Trimmed(arg)

\* as the code has it: for every such string that holds no line-break tag
C11_RoundTripIsTrimWithoutBr ==
    (/\ fn = "unescape_after_preprocess" /\ arg # NoneText
     /\ NoPipeNoBackslash(arg) /\ BrStarts(arg) = {}) =>
        ret = Trimmed(arg)

\* a string with surrounding whitespace and the start of a tag, but no tag
C11_Witness ==
    /\ fn = "unescape_after_preprocess" /\ arg # NoneText
    /\ NoPipeNoBackslash(arg) /\ BrStarts(arg) = {}
    /\ Len(arg) >= 4 /\ arg[1] \in Whitespace /\ arg[Len(arg)] \in Whitespace
    /\ \E k \in 1..(Len(arg) - 1) : arg[k] = "<" /\ arg[k + 1] = "b"
    /\ ret # arg

(***************************************************************************)
(* C12: preprocess_cell_content maps None to the empty string; otherwise   *)
(* it replaces every line-break tag (any letter case, with or without      *)
(* whitespace and the slash before ">") by one newline and trims the       *)
(* result, interior newlines kept.                                         *)
(***************************************************************************)
C12_BreakTagsBecomeNewlines ==
    fn = "preprocess_cell_content" =>
        /\ arg = NoneText => ret = <<>>
        /\ arg # NoneText => ret = Trimmed(BrReplaced(arg))

\* a mixed-case tag with whitespace and a slash, between two letters
C12_Witness ==
    /\ fn = "preprocess_cell_content"
    /\ arg = <<" ", "a", "<", "B", "r", "\t", "/", ">", "a", "\n">>
    /\ ret = <<"a", "\n", "a">>

(***************************************************************************)
(* C13: apply_cell_formatting gives one style per text: bold, the two      *)
(* characters at each end removed and the rest trimmed, when the text      *)
(* starts and ends with "**" and is longer than 4; otherwise italic, one   *)
(* character at each end removed and the rest trimmed, when the text is    *)
(* longer than 2 and starts and ends with "*" or starts and ends with "_"; *)
(* otherwise no style and the text as it is.                               *)
(***************************************************************************)
BoldShape(v) ==
    /\ Len(v) > 4
    /\ v[1] = "*" /\ v[2] = "*" /\ v[Len(v) - 1] = "*" /\ v[Len(v)] = "*"

ItalicShape(v) ==
    /\ Len(v) > 2
    /\ \/ v[1] = "*" /\ v[Len(v)] = "*"
       \/ v[1] = "_" /\ v[Len(v)] = "_"

Styled(text, font) == [text |-> text, font |-> font]

C13_OneStylePerCell ==
    fn = "apply_cell_formatting" =>
        /\ ret.font \in {"bold", "italic", "none"}
        /\ BoldShape(arg) =>
              ret = Styled(Trimmed(SubSeq(arg, 3, Len(arg) - 2)), "bold")
        /\ (~BoldShape(arg) /\ ItalicShape(arg)) =>
              ret = Styled(Trimmed(SubSeq(arg, 2, Len(arg) - 1)), "italic")
        /\ (~BoldShape(arg) /\ ~ItalicShape(arg)) => ret = Styled(arg, "none")
        /\ arg = <<"*", "*", "b", "o", "l", "d", "*", "*">> =>
              ret = Styled(<<"b", "o", "l", "d">>, "bold")
        /\ arg = <<"*", "i", "t", "*">> => ret = Styled(<<"i", "t">>, "italic")
        /\ arg = <<"_", "i", "t", "_">> => ret = Styled(<<"i", "t">>, "italic")
        /\ arg = <<"p", "l", "a", "i", "n">> => ret = Styled(arg, "none")

\* a text of the bold shape, which is of the italic shape too
C13_Witness ==
    /\ fn = "apply_cell_formatting"
    /\ arg = <<"*", "*", "b", "o", "l", "d", "*", "*">>
    /\ ItalicShape(arg)
    /\ ret = Styled(<<"b", "o", "l", "d">>, "bold")

(***************************************************************************)
(* C17: texts whose emphasis markers are nested, mismatched or only inside *)
(* the text come back unstyled and unchanged.                              *)
(***************************************************************************)
\* three asterisks on each side
NestedMarkers(v) ==
    /\ Len(v) > 6
    /\ \A k \in {1, 2, 3, Len(v) - 2, Len(v) - 1, Len(v)} : v[k] = "*"

\* opening "**", closing "*"
MismatchedMarkers(v) ==
    /\ Len(v) > 3
    /\ v[1] = "*" /\ v[2] = "*" /\ v[Len(v)] = "*" /\ v[Len(v) - 1] # "*"

\* the text does not both start and end with "*", nor with "_"
NoMarkerPairAtEnds(v) ==
    /\ ~(Len(v) >= 1 /\ v[1] = "*" /\ v[Len(v)] = "*")
    /\ ~(Len(v) >= 1 /\ v[1] = "_" /\ v[Len(v)] = "_")

MarkersInside(v) ==
    /\ NoMarkerPairAtEnds(v)
    /\ \E k \in 1..Len(v) : v[k] \in {"*", "_"}

\* as stated
C17_NestedMismatchedUnstyled ==
    (/\ fn = "apply_cell_formatting"
     /\ NestedMarkers(arg) \/ MismatchedMarkers(arg) \/ MarkersInside(arg)) =>
        ret = Styled(arg, "none")

\* as the code has it: unstyled when no marker pair stands at the two ends;
\* nested markers give bold with the inner pair kept, mismatched ones
\* italic with the second asterisk kept
C17_OnlyInsideMarkersUnstyled ==
    fn = "apply_cell_formatting" =>
        /\ NoMarkerPairAtEnds(arg) => ret = Styled(arg, "none")
        /\ NestedMarkers(arg) =>
              /\ ret.font = "bold"
              /\ ret.text = Trimmed(SubSeq(arg, 3, Len(arg) - 2))
              /\ ret.text[1] = "*" /\ ret.text[Len(ret.text)] = "*"
        /\ MismatchedMarkers(arg) =>
              /\ ret.font = "italic"
              /\ ret.text = Trimmed(SubSeq(arg, 2, Len(arg) - 1))
              /\ ret.text[1] = "*"

\* markers inside the text only
C17_Witness ==
    /\ fn = "apply_cell_formatting"
    /\ arg = <<"a", "*", "b", "*", "c">>
    /\ MarkersInside(arg)
    /\ ret = Styled(arg, "none")

(***************************************************************************)
(* C20: unescape_markdown_cell (every backslash-pipe to a pipe, then every *)
(* backslash-backslash to a backslash) gives what one pass from left to    *)
(* right gives that turns backslash-backslash into a backslash,            *)
(* backslash-pipe into a pipe and copies any other character.              *)
(***************************************************************************)
RECURSIVE DecodeLeftToRight(_)
DecodeLeftToRight(s) ==
    IF s = <<>> THEN <<>>
    ELSE IF Len(s) >= 2 /\ s[1] = BSL /\ s[2] = BSL
         THEN <<BSL>> \o DecodeLeftToRight(SubSeq(s, 3, Len(s)))
    ELSE IF Len(s) >= 2 /\ s[1] = BSL /\ s[2] = PIPE
         THEN <<PIPE>> \o DecodeLeftToRight(SubSeq(s, 3, Len(s)))
    ELSE <<s[1]>> \o DecodeLeftToRight(Tail(s))

C20_TwoPassEqualsOnePass ==
    fn = "unescape_markdown_cell" => ret = DecodeLeftToRight(arg)

\* an escaped backslash directly before a pipe
C20_Witness ==
    /\ fn = "unescape_markdown_cell"
    /\ arg = <<"a", BSL, BSL, PIPE, BSL, PIPE>>
    /\ ret = <<"a", BSL, PIPE, PIPE>>

(***************************************************************************)
(* C16: in a line that parse_markdown_table_line takes as a row, no pipe   *)
(* that a backslash immediately precedes is used as a delimiter, wherever  *)
(* it stands in the line, and each of them is a pipe inside a cell.        *)
(***************************************************************************)
EscapedPipes(t) == {k \in 2..Len(t) : t[k] = PIPE /\ t[k - 1] = BSL}

\* the pipes inside the cells, as pairs of cell and position
PipesInCells(cells) ==
    UNION {{<<m, k>> : k \in {q \in 1..Len(cells[m]) : cells[m][q] = PIPE}} :
              m \in 1..Len(cells)}

C16_EscapedPipesAreNeverDelimiters ==
    (fn = "parse_markdown_table_line" /\ ret.isRow) =>
        LET t == Trimmed(arg) IN
        /\ Len(t) \notin EscapedPipes(t)
        /\ Cardinality(PipesInCells(ret.cells)) = Cardinality(EscapedPipes(t))

(***************************************************************************)
(* C14: parse_markdown_table is a function of its input: two calls on the  *)
(* same line sequence, with another call in between, return the same       *)
(* headers, rows and flag and print the same messages.                     *)
(***************************************************************************)
C14_SameInputSameResult ==
    \A m, n \in Finished :
        results[m].input = results[n].input => results[m] = results[n]

\* a table with a data row parsed before and after a call on another input
C14_Witness ==
    /\ Len(results) = 3
    /\ results[1].input = results[3].input
    /\ results[2].input # results[1].input
    /\ results[1].rows # <<>>
    /\ results[2].headers # <<>>

(***************************************************************************)
(* C15: during a call the scan only moves forward through                  *)
(* SEEKING_HEADER, HEADER_FOUND, SEPARATOR_FOUND and then DONE or FAILED:  *)
(* the header is recorded once and kept, the row list grows only at its    *)
(* end, the lines are taken one by one in input order and none after DONE  *)
(* or FAILED.                                                              *)
(***************************************************************************)
Failed ==
    /\ pc = "idle" /\ results # <<>>
    /\ LET r == results[Len(results)] IN
       r.out[Len(r.out)].kind = "error_row_before_separator"

Done == \E k \in 1..Len(out) : out[k].kind = "table_ended"

Phase ==
    IF Failed THEN "FAILED"
    ELSE IF Done THEN "DONE"
    ELSE IF separator_found THEN "SEPARATOR_FOUND"
    ELSE IF header_found THEN "HEADER_FOUND"
    ELSE "SEEKING_HEADER"

PhaseMoves ==
    { <<"SEEKING_HEADER", "HEADER_FOUND">>,
      <<"HEADER_FOUND", "SEPARATOR_FOUND">>,
      <<"HEADER_FOUND", "FAILED">>,
      <<"SEPARATOR_FOUND", "DONE">> }

C15_ScanOnlyAdvances ==
    [][pc # "idle" =>
          /\ Phase' = Phase \/ <<Phase, Phase'>> \in PhaseMoves
          /\ lines' = lines
          /\ i' = i \/ (i' = i + 1 /\ pc = "loop" /\ i < Len(lines))
          /\ header_found => (header_found' /\ headers' = headers)
          /\ headers' # headers => (~header_found /\ headers' = Tok(lines[i + 1]))
          /\ \/ data_rows' = data_rows
             \/ /\ Len(data_rows') = Len(data_rows) + 1
                /\ SubSeq(data_rows', 1, Len(data_rows)) = data_rows
                /\ i' = i + 1
          /\ Phase \in {"DONE", "FAILED"} =>
                UNCHANGED <<i, headers, data_rows, header_found, separator_found>>
          /\ Phase' \in {"DONE", "FAILED"} => i' = i]_vars

\* the scan has ended at a non-row line after two data rows, with lines left
C15_Witness ==
    /\ Phase = "DONE" /\ pc = "validate"
    /\ Len(data_rows) >= 2
    /\ i + 1 < Len(lines)

(***************************************************************************)
(* C18: the separator validator decides only while the header is recorded  *)
(* and no separator is: a separator-shaped line that is the first          *)
(* pipe-delimited row is the header, one that follows the separator in the *)
(* run of rows is a data row, and at most one line of a scan is taken as   *)
(* the separator.                                                          *)
(***************************************************************************)
SeparatorMsgs(r) == {k \in 1..Len(r.out) : r.out[k].kind = "separator"}

C18_ValidatorOnlyBetweenHeaderAndSeparator ==
    \A n \in Finished :
        LET r == results[n]
            ls == r.input
        IN  /\ HasHeader(ls) => r.headers = Tok(ls[HeaderAt(ls)])
            /\ Cardinality(SeparatorMsgs(r)) <= 1
            /\ SeparatorMsgs(r) # {} <=> HasSeparator(ls)
            /\ \A k \in SeparatorMsgs(r) : r.out[k].line = SecondRowAt(ls)
            /\ HasSeparator(ls) =>
                  /\ Len(r.rows) = RunLen(ls, SecondRowAt(ls))
                  /\ \A k \in 1..RunLen(ls, SecondRowAt(ls)) :
                        is_separator_line(ls[SecondRowAt(ls) + k]) =>
                            r.rows[k] = Tok(ls[SecondRowAt(ls) + k])

\* a separator-shaped header, the separator, a separator-shaped data row
C18_Witness ==
    \E n \in Finished :
        LET r == results[n]
            ls == r.input
        IN  /\ HasSeparator(ls)
            /\ is_separator_line(ls[HeaderAt(ls)])
            /\ r.headers = Tok(ls[HeaderAt(ls)])
            /\ \E k \in 1..Len(r.rows) :
                  /\ is_separator_line(ls[SecondRowAt(ls) + k])
                  /\ r.rows[k] = Tok(ls[SecondRowAt(ls) + k])

(***************************************************************************)
(* C19: in every state of a scan a non-empty row list implies that the     *)
(* separator has been found, and a found separator that the header has;    *)
(* so a failed call returns no rows, the row-before-separator failure      *)
(* comes with no separator found, and a successful call returns a header   *)
(* of at least one cell.                                                   *)
(***************************************************************************)
C19_RowsNeedSeparatorNeedsHeader ==
    /\ data_rows # <<>> => separator_found
    /\ separator_found => header_found
    /\ header_found => Len(headers) >= 1
    /\ \A n \in Finished :
          LET r == results[n] IN
          /\ ~r.success => r.rows = <<>>
          /\ r.out[Len(r.out)].kind = "error_row_before_separator" =>
                (SeparatorMsgs(r) = {} /\ r.headers # <<>>)
          /\ r.success => Len(r.headers) >= 1

\* rows collected in the middle of a scan
C19_Witness ==
    /\ pc = "loop" /\ i < Len(lines)
    /\ data_rows # <<>> /\ separator_found /\ header_found
=============================================================================
